---------------------------- MODULE Spec2Model ----------------------------
(***************************************************************************)
(* A model of the Gaussian evaluators of                                   *)
(*   src/src/stan/prob/distributions/univariate/continuous/normal.hpp      *)
(* (normal_log, normal_ss_log, normal_cdf, normal_cdf_log,                 *)
(* normal_ccdf_log, normal_rng) and of                                     *)
(*   src/stan/math/prim/scal/err/check_3F2_converges.hpp.                  *)
(*                                                                         *)
(* A double is an extended rational [k, n, d]: k is "fin" (the value n/d,  *)
(* d > 0, in lowest terms), "pinf", "ninf" or "nan".  Arithmetic is exact  *)
(* on finite values and follows IEEE-754 on infinities and NaN; rounding   *)
(* and the sign of zero are not modelled (a zero divisor is +0.0).         *)
(* Transcendental values (log, erf, erfc, exp) are kept as symbolic terms. *)
(***************************************************************************)
EXTENDS Integers, Sequences, FiniteSets, TLC

(***************************************************************************)
(* Bounds of the model.                                                    *)
(***************************************************************************)
MaxLen == 3
MaxLenSS == 1
MaxDraws == 2

(***************************************************************************)
(* Extended rationals.                                                     *)
(***************************************************************************)
Abs(i) == IF i < 0 THEN -i ELSE i

RECURSIVE GCD(_, _)
GCD(a, b) == IF b = 0 THEN a ELSE GCD(b, a % b)

Fin(n, d) ==
  LET s == IF d < 0 THEN -1 ELSE 1
      g == GCD(Abs(n), Abs(d))
  IN  [k |-> "fin", n |-> (s * n) \div g, d |-> (s * d) \div g]

Int2E(i) == [k |-> "fin", n |-> i, d |-> 1]
NaN  == [k |-> "nan",  n |-> 0, d |-> 1]
PInf == [k |-> "pinf", n |-> 0, d |-> 1]
NInf == [k |-> "ninf", n |-> 0, d |-> 1]
Zero == Int2E(0)
One  == Int2E(1)
Two  == Int2E(2)
Half == Fin(1, 2)

IsNaN(x) == x.k = "nan"
IsFin(x) == x.k = "fin"
IsInf(x) == x.k \in {"pinf", "ninf"}

\* -1, 0 or 1; only used on values that are not NaN
Sgn(x) ==
  CASE x.k = "pinf" -> 1
    [] x.k = "ninf" -> -1
    [] OTHER -> IF x.n > 0 THEN 1 ELSE IF x.n < 0 THEN -1 ELSE 0

InfOfSign(s) == IF s > 0 THEN PInf ELSE NInf

ENeg(x) ==
  CASE x.k = "nan"  -> NaN
    [] x.k = "pinf" -> NInf
    [] x.k = "ninf" -> PInf
    [] OTHER -> [k |-> "fin", n |-> -x.n, d |-> x.d]

EAdd(a, b) ==
  CASE IsNaN(a) \/ IsNaN(b) -> NaN
    [] IsInf(a) /\ IsInf(b) -> IF a.k = b.k THEN a ELSE NaN
    [] IsInf(a) -> a
    [] IsInf(b) -> b
    [] OTHER -> Fin(a.n * b.d + b.n * a.d, a.d * b.d)

ESub(a, b) == EAdd(a, ENeg(b))

EMul(a, b) ==
  CASE IsNaN(a) \/ IsNaN(b) -> NaN
    [] IsInf(a) \/ IsInf(b) ->
         IF Sgn(a) * Sgn(b) = 0 THEN NaN ELSE InfOfSign(Sgn(a) * Sgn(b))
    [] OTHER -> Fin(a.n * b.n, a.d * b.d)

EDiv(a, b) ==
  CASE IsNaN(a) \/ IsNaN(b) -> NaN
    [] IsInf(a) /\ IsInf(b) -> NaN
    [] IsInf(a) -> InfOfSign(Sgn(a) * (IF Sgn(b) < 0 THEN -1 ELSE 1))
    [] IsInf(b) -> Zero
    [] b.n = 0 -> IF a.n = 0 THEN NaN ELSE InfOfSign(Sgn(a))
    [] OTHER -> Fin(a.n * b.d, a.d * b.n)

\* a < b as the C++ operator: false when either side is NaN
ELt(a, b) ==
  CASE IsNaN(a) \/ IsNaN(b) -> FALSE
    [] a.k = "pinf" -> FALSE
    [] b.k = "ninf" -> FALSE
    [] a.k = "ninf" -> TRUE
    [] b.k = "pinf" -> TRUE
    [] OTHER -> a.n * b.d < b.n * a.d

EGt(a, b) == ELt(b, a)
ELe(a, b) == ~IsNaN(a) /\ ~IsNaN(b) /\ ~ELt(b, a)
\* a == b as the C++ operator: false when either side is NaN
EEq(a, b) == ~IsNaN(a) /\ ~IsNaN(b) /\ a = b

EAbs(x) == IF IsNaN(x) THEN NaN ELSE IF Sgn(x) < 0 THEN ENeg(x) ELSE x

EFloor(x) ==
  IF IsFin(x) THEN Int2E(x.n \div x.d) ELSE x


(***************************************************************************)
(* Inputs.  An argument is a sequence of doubles of length 0..MaxLen whose *)
(* elements run cyclically through a list of values, from any offset.      *)
(***************************************************************************)
Cyc(vals, o, L) == [i \in 1..L |-> vals[((o + i - 2) % Len(vals)) + 1]]
Arguments(vals, maxLen) ==
  {Cyc(vals, o, L) : o \in 1..Len(vals), L \in 0..maxLen}

\* normal_log
YListLog == <<Int2E(0), Int2E(1), Int2E(-2), NaN, NInf>>
\* the tail evaluators: every region of scaled_diff and its boundaries
YList == <<Int2E(0), Int2E(-40), Fin(-75, 2), Int2E(-6), Int2E(-5), NaN,
           Fin(33, 4), Int2E(9), PInf>>
MuList == <<Int2E(0), Int2E(1), Int2E(-1), PInf>>
SigmaList == <<Int2E(1), Int2E(2), Int2E(4), NaN, Int2E(0), PInf>>

YBarList == <<Int2E(1), Int2E(3), Int2E(5), NaN>>
SSquaredList == <<Int2E(2), NaN>>
NObsList == <<Int2E(2), NaN, PInf, Int2E(0)>>
MuListSS == <<Int2E(0), Int2E(1), NInf>>
SigmaListSS == <<Int2E(2), Int2E(-1)>>

RngMu == {Int2E(0), Int2E(1), NaN, PInf, NInf}
RngSigma == {Int2E(1), Int2E(2), Int2E(0), Int2E(-1), NaN, PInf}
\* the standard normal deviates the random source yields, in order
Deviates == <<Int2E(0), Int2E(1), Fin(-3, 2)>>

(***************************************************************************)
(* Log-scale values: q + c * NEG_LOG_SQRT_TWO_PI + SUM_s l[s] * log(s),    *)
(* with exact coefficients; log(1) is 0 and log(+inf) is +inf.  A value    *)
(* that is not finite has k # "fin" and zero coefficients.                 *)
(***************************************************************************)
\* the finite, strictly positive scale values other than 1 of the inputs
LogAtoms ==
  {x \in {SigmaList[i] : i \in 1..Len(SigmaList)}
          \cup {SigmaListSS[i] : i \in 1..Len(SigmaListSS)} :
     IsFin(x) /\ Sgn(x) > 0 /\ x # One}

LinMake(k, q, c, l) == [k |-> k, q |-> q, c |-> c, l |-> l]
NoLogs == [s \in LogAtoms |-> Zero]
LinOfKind(k) == LinMake(k, Zero, Zero, NoLogs)
LinOfE(x) == IF IsFin(x) THEN LinMake("fin", x, Zero, NoLogs) ELSE LinOfKind(x.k)
LinZero == LinOfE(Zero)

LinNeg(a) ==
  CASE a.k = "nan"  -> LinOfKind("nan")
    [] a.k = "pinf" -> LinOfKind("ninf")
    [] a.k = "ninf" -> LinOfKind("pinf")
    [] OTHER -> LinMake("fin", ENeg(a.q), ENeg(a.c), [s \in LogAtoms |-> ENeg(a.l[s])])

LinAdd(a, b) ==
  CASE a.k = "nan" \/ b.k = "nan" -> LinOfKind("nan")
    [] a.k # "fin" /\ b.k # "fin" -> IF a.k = b.k THEN a ELSE LinOfKind("nan")
    [] a.k # "fin" -> a
    [] b.k # "fin" -> b
    [] OTHER -> LinMake("fin", EAdd(a.q, b.q), EAdd(a.c, b.c),
                        [s \in LogAtoms |-> EAdd(a.l[s], b.l[s])])

LinSub(a, b) == LinAdd(a, LinNeg(b))

\* r * a for a double r.  The evaluators multiply a log-scale value only by
\* n_obs_dbl, which check_finite has accepted, so an infinite r never meets
\* a value with symbolic parts; that product is given as NaN.
LinScale(r, a) ==
  CASE IsNaN(r) \/ a.k = "nan" -> LinOfKind("nan")
    [] a.k # "fin" ->
         IF Sgn(r) = 0 THEN LinOfKind("nan")
         ELSE IF Sgn(r) > 0 THEN a ELSE LinNeg(a)
    [] IsInf(r) ->
         IF a.c = Zero /\ a.l = NoLogs
         THEN LinOfE(EMul(r, a.q))
         ELSE LinOfKind("nan")
    [] OTHER -> LinMake("fin", EMul(r, a.q), EMul(r, a.c),
                        [s \in LogAtoms |-> EMul(r, a.l[s])])

\* std::log of a strictly positive double
Log(x) ==
  CASE IsNaN(x) -> LinOfKind("nan")
    [] x.k = "pinf" -> LinOfKind("pinf")
    [] x = One -> LinZero
    [] OTHER -> LinMake("fin", Zero, Zero,
                        [s \in LogAtoms |-> IF s = x THEN One ELSE Zero])

NEG_LOG_SQRT_TWO_PI == LinMake("fin", Zero, One, NoLogs)
NEGATIVE_HALF == Fin(-1, 2)

TailFns == {"normal_cdf", "normal_cdf_log", "normal_ccdf_log"}
ThreeArgFns == {"normal_log"} \cup TailFns
Evaluators == ThreeArgFns \cup {"normal_ss_log"}

VARIABLES
  fn,            \* the function called
  propto,        \* template parameter propto
  arg,           \* the arguments, by parameter name
  is_constant,   \* is_constant_struct<T>::value of each operand type
  pc,            \* position in the function body
  n,             \* loop index (number of completed iterations)
  acc,           \* logp / cdf / cdf_log / ccdf_log
  inv_sigma, log_sigma,
  d_x,           \* operands_and_partials.d_x1 .. d_x4
  written,       \* operands whose derivative accumulator has been written
  tail,          \* the last element's scaled_diff and cdf_ / one_p_erf / one_m_erf
  err,           \* the exception thrown
  result,        \* the value returned
  rng,           \* the random source passed to normal_rng
  hyp            \* the arguments of check_3F2_converges

vars == <<fn, propto, arg, is_constant, pc, n, acc, inv_sigma, log_sigma,
          d_x, written, tail, err, result, rng, hyp>>

NoArg == [y |-> <<>>, s_squared |-> <<>>, n_obs |-> <<>>, mu |-> <<>>, sigma |-> <<>>]
AllConstant == [y |-> TRUE, s_squared |-> TRUE, mu |-> TRUE, sigma |-> TRUE]
NoErr == [type |-> "none", function |-> "", name |-> "", value |-> Zero]
NoResult == [kind |-> "none"]
NoTail == [set |-> FALSE]
NoRng == [pos |-> 0, reads |-> 0]
NoHyp == <<>>

Init ==
  /\ fn = "none"
  /\ propto = FALSE
  /\ arg = NoArg
  /\ is_constant = AllConstant
  /\ pc = "idle"
  /\ n = 0
  /\ acc = LinZero
  /\ inv_sigma = <<>>
  /\ log_sigma = <<>>
  /\ d_x = <<>>
  /\ written = {}
  /\ tail = NoTail
  /\ err = NoErr
  /\ result = NoResult
  /\ rng = NoRng
  /\ hyp = NoHyp

(***************************************************************************)
(* Collaborators of the evaluators.                                        *)
(***************************************************************************)
\* stan::length
Length(x) == Len(x)

\* VectorView::operator[] at the 0-based index i: a length-1 argument
\* supplies its sole element at every index
View(x, i) == IF Len(x) = 1 THEN x[1] ELSE x[i + 1]

\* the accumulator slot VectorView selects, 1-based
Slot(x, i) == IF Len(x) = 1 THEN 1 ELSE i + 1

\* the operands (inputs with a derivative accumulator d_x1, d_x2, ...)
Operands(f) ==
  IF f = "normal_ss_log" THEN <<"y", "s_squared", "mu", "sigma">>
  ELSE <<"y", "mu", "sigma">>

\* the arguments whose sizes decide the broadcast length
SizedArgs(f) ==
  IF f = "normal_ss_log" THEN <<"y", "s_squared", "n_obs", "mu", "sigma">>
  ELSE <<"y", "mu", "sigma">>

\* max_size
MaxSize(f, a) ==
  LET names == SizedArgs(f)
      lens == {Length(a[names[j]]) : j \in 1..Len(names)}
  IN  CHOOSE m \in lens : \A l \in lens : l <= m

\* the value checks: a value fails check_not_nan iff it is NaN, check_finite
\* iff it is NaN or infinite, check_positive iff it is not > 0
Violates(chk, x) ==
  CASE chk = "not_nan"  -> IsNaN(x)
    [] chk = "finite"   -> ~IsFin(x)
    [] chk = "positive" -> ~EGt(x, Zero)

Offenders(chk, xs) == {i \in 1..Len(xs) : Violates(chk, xs[i])}
MinOf(S) == CHOOSE m \in S : \A i \in S : m <= i

\* check_consistent_sizes: every length is 1 or the maximum length
BadSizes(f, a) ==
  LET names == SizedArgs(f)
  IN  {j \in 1..Len(names) :
         Length(a[names[j]]) # 1 /\ Length(a[names[j]]) # MaxSize(f, a)}

\* include_summand<propto, T...>::value: a term is kept unless propto is set
\* and every type it depends on is constant
IncludeSummand(p, consts) == ~p \/ \E c \in consts : ~c

(***************************************************************************)
(* normal.hpp: what every evaluator does before its loop.                  *)
(***************************************************************************)
\* static const char* function
FunctionName(f) ==
  CASE f = "normal_log"      -> "stan::prob::normal_log(%1%)"
    [] f = "normal_ss_log"   -> "stan::prob::normal_log(%1%)"
    [] f = "normal_cdf"      -> "stan::prob::normal_cdf(%1%)"
    [] f = "normal_cdf_log"  -> "stan::prob::normal_cdf_log(%1%)"
    [] f = "normal_ccdf_log" -> "stan::prob::normal_ccdf_log(%1%)"
    [] f = "normal_rng"      -> "stan::prob::normal_rng(%1%)"

\* the value checks of each function, in the order of the calls
Checks(f) ==
  CASE f = "normal_log" ->
         << <<"not_nan", "y", "Random variable">>,
            <<"finite", "mu", "Location parameter">>,
            <<"positive", "sigma", "Scale parameter">> >>
    [] f = "normal_ss_log" ->
         << <<"not_nan", "y", "Location parameter sufficient statistic">>,
            <<"not_nan", "s_squared", "Scale parameter sufficient statistic">>,
            <<"not_nan", "n_obs", "Number of observations">>,
            <<"finite", "n_obs", "Number of observations">>,
            <<"positive", "n_obs", "Number of observations">>,
            <<"finite", "mu", "Location parameter">>,
            <<"positive", "sigma", "Scale parameter">> >>
    [] f \in TailFns ->
         << <<"not_nan", "y", "Random variable">>,
            <<"finite", "mu", "Location parameter">>,
            <<"not_nan", "sigma", "Scale parameter">>,
            <<"positive", "sigma", "Scale parameter">> >>
    [] f = "normal_rng" ->
         << <<"finite", "mu", "Location parameter">>,
            <<"not_nan", "mu", "Location parameter">>,
            <<"positive", "sigma", "Scale parameter">>,
            <<"not_nan", "sigma", "Scale parameter">> >>

\* the role labels handed to check_consistent_sizes
SizeNames(f) ==
  IF f = "normal_ss_log"
  THEN <<"Location parameter sufficient statistic",
         "Scale parameter sufficient statistic",
         "Number of observations", "Location parameter", "Scale parameter">>
  ELSE <<"Random variable", "Location parameter", "Scale parameter">>

\* the checks of f that fail on the arguments a
FailedChecks(f, a) ==
  {j \in 1..Len(Checks(f)) : Offenders(Checks(f)[j][1], a[Checks(f)[j][2]]) # {}}

\* Validate with check_consistent_sizes called before the value checks
Validate_SizesFirst(f, a) ==
  IF f \in Evaluators /\ BadSizes(f, a) # {}
  THEN LET j == MinOf(BadSizes(f, a))
       IN  [type |-> "ShapeMismatch", function |-> FunctionName(f),
            name |-> SizeNames(f)[j],
            value |-> Int2E(Length(a[SizedArgs(f)[j]]))]
  ELSE IF FailedChecks(f, a) # {}
  THEN LET c == Checks(f)[MinOf(FailedChecks(f, a))]
           xs == a[c[2]]
       IN  [type |-> "DomainError", function |-> FunctionName(f),
            name |-> c[3], value |-> xs[MinOf(Offenders(c[1], xs))]]
  ELSE NoErr

\* the exception of the first failing check, or NoErr
Validate(f, a) ==
  IF FailedChecks(f, a) # {}
  THEN LET c == Checks(f)[MinOf(FailedChecks(f, a))]
           xs == a[c[2]]
       IN  [type |-> "DomainError", function |-> FunctionName(f),
            name |-> c[3], value |-> xs[MinOf(Offenders(c[1], xs))]]
  ELSE IF f \in Evaluators /\ BadSizes(f, a) # {}
  THEN LET j == MinOf(BadSizes(f, a))
       IN  [type |-> "ShapeMismatch", function |-> FunctionName(f),
            name |-> SizeNames(f)[j],
            value |-> Int2E(Length(a[SizedArgs(f)[j]]))]
  ELSE NoErr

\* the zero-length test with the last argument left out
AnyZeroLength_NoSigma(f, a) ==
  \E j \in 1..(Len(SizedArgs(f)) - 1) : Length(a[SizedArgs(f)[j]]) = 0

\* "check if any vectors are zero length"
AnyZeroLength(f, a) ==
  \E j \in 1..Len(SizedArgs(f)) : Length(a[SizedArgs(f)[j]]) = 0

\* the initial value of the accumulator: logp(0.0), cdf(1.0), cdf_log(0.0),
\* ccdf_log(0.0)
InitialValue(f) ==
  CASE f \in {"normal_log", "normal_ss_log"} -> LinZero
    [] f = "normal_cdf" -> [init |-> One, terms |-> <<>>]
    [] OTHER -> [init |-> Zero, terms |-> <<>>]

\* "check if no variables are involved and prop-to"
NoSummand(f, p, c) ==
  IF f = "normal_log"
  THEN ~IncludeSummand(p, {c.y, c.mu, c.sigma})
  ELSE ~IncludeSummand(p, {c.y, c.s_squared, c.mu, c.sigma})

\* OperandsAndPartials: one accumulator per non-constant operand, a zero for
\* each of its elements
ZeroPartial(f) == IF f \in TailFns THEN <<>> ELSE Zero
NewPartials(f, a, c) ==
  [j \in 1..Len(Operands(f)) |->
     IF c[Operands(f)[j]] THEN <<>>
     ELSE [i \in 1..Length(a[Operands(f)[j]]) |-> ZeroPartial(f)]]

Call(f, p, a, c) ==
  /\ pc = "idle"
  /\ fn' = f
  /\ propto' = p
  /\ arg' = a
  /\ is_constant' = c
  /\ acc' = InitialValue(f)
  /\ pc' = "entry"
  /\ UNCHANGED <<n, inv_sigma, log_sigma, d_x, written, tail, err, result, rng, hyp>>

CallNormalLog ==
  /\ pc = "idle"
  /\ \E p \in BOOLEAN, cy \in BOOLEAN, cm \in BOOLEAN, cs \in BOOLEAN :
       \E y \in Arguments(YListLog, MaxLen), mu \in Arguments(MuList, MaxLen),
          sigma \in Arguments(SigmaList, MaxLen) :
         Call("normal_log", p, [NoArg EXCEPT !.y = y, !.mu = mu, !.sigma = sigma],
              [AllConstant EXCEPT !.y = cy, !.mu = cm, !.sigma = cs])

CallTail ==
  /\ pc = "idle"
  /\ \E f \in TailFns, cy \in BOOLEAN, cm \in BOOLEAN, cs \in BOOLEAN :
       \E y \in Arguments(YList, MaxLen), mu \in Arguments(MuList, MaxLen),
          sigma \in Arguments(SigmaList, MaxLen) :
         Call(f, FALSE, [NoArg EXCEPT !.y = y, !.mu = mu, !.sigma = sigma],
              [AllConstant EXCEPT !.y = cy, !.mu = cm, !.sigma = cs])

\* y_bar and mu run up to the length of the valid values of their lists (3
\* and 2), so that the lengths 2 and 3 meet; the other arguments are bounded
\* by MaxLenSS
CallSS ==
  /\ pc = "idle"
  /\ \E p \in BOOLEAN, cy \in BOOLEAN, ct \in BOOLEAN, cm \in BOOLEAN, cs \in BOOLEAN :
       \E y_bar \in Arguments(YBarList, Len(YBarList) - 1),
          s_squared \in Arguments(SSquaredList, MaxLenSS),
          n_obs \in Arguments(NObsList, MaxLenSS),
          mu \in Arguments(MuListSS, Len(MuListSS) - 1),
          sigma \in Arguments(SigmaListSS, MaxLenSS) :
         Call("normal_ss_log", p,
              [y |-> y_bar, s_squared |-> s_squared, n_obs |-> n_obs,
               mu |-> mu, sigma |-> sigma],
              [y |-> cy, s_squared |-> ct, mu |-> cm, sigma |-> cs])

\* lines 53-57, 166-172, 285-289, 365-369, 437-441
ZeroLengthTest ==
  /\ pc = "entry"
  /\ fn \in Evaluators
  /\ IF AnyZeroLength(fn, arg)
     THEN /\ result' = [kind |-> "value", value |-> acc, partials |-> <<>>]
          /\ pc' = "done"
     ELSE /\ pc' = "check"
          /\ UNCHANGED result
  /\ UNCHANGED <<fn, propto, arg, is_constant, n, acc, inv_sigma, log_sigma,
                 d_x, written, tail, err, rng, hyp>>

\* ValidateArgs with the "prop-to" return of normal_log and normal_ss_log
\* taken ahead of the checks
ValidateArgs_SummandFirst ==
  /\ pc = "check"
  /\ fn \in Evaluators
  /\ IF fn \notin TailFns /\ NoSummand(fn, propto, is_constant)
     THEN /\ result' = [kind |-> "value", value |-> LinZero, partials |-> <<>>]
          /\ pc' = "done"
          /\ UNCHANGED err
     ELSE IF Validate(fn, arg) # NoErr
     THEN /\ err' = Validate(fn, arg)
          /\ pc' = "error"
          /\ UNCHANGED result
     ELSE /\ pc' = IF fn \in TailFns THEN "setup" ELSE "summand"
          /\ UNCHANGED <<err, result>>
  /\ UNCHANGED <<fn, propto, arg, is_constant, n, acc, inv_sigma, log_sigma,
                 d_x, written, tail, rng, hyp>>

\* lines 62-70, 177-192, 291-299, 371-378, 443-450
ValidateArgs ==
  /\ pc = "check"
  /\ fn \in Evaluators
  /\ IF Validate(fn, arg) # NoErr
     THEN /\ err' = Validate(fn, arg)
          /\ pc' = "error"
     ELSE /\ pc' = IF fn \in TailFns THEN "setup" ELSE "summand"
          /\ UNCHANGED err
  /\ UNCHANGED <<fn, propto, arg, is_constant, n, acc, inv_sigma, log_sigma,
                 d_x, written, tail, result, rng, hyp>>

\* lines 71-73, 193-195
SummandTest ==
  /\ pc = "summand"
  /\ IF NoSummand(fn, propto, is_constant)
     THEN /\ result' = [kind |-> "value", value |-> LinZero, partials |-> <<>>]
          /\ pc' = "done"
     ELSE /\ pc' = "setup"
          /\ UNCHANGED result
  /\ UNCHANGED <<fn, propto, arg, is_constant, n, acc, inv_sigma, log_sigma,
                 d_x, written, tail, err, rng, hyp>>

(***************************************************************************)
(* normal_log, lines 76-123.                                               *)
(***************************************************************************)
\* log_sigma with the logarithm of the first element reused for every element
LogSigma_FirstOnly(p, c, sigma) ==
  IF IncludeSummand(p, {c.sigma})
  THEN [i \in 1..Length(sigma) |-> Log(sigma[1])]
  ELSE <<>>

\* lines 83-89: inv_sigma and log_sigma, one entry per element of sigma
InvSigma(sigma) == [i \in 1..Length(sigma) |-> EDiv(One, sigma[i])]
LogSigma(p, c, sigma) ==
  IF IncludeSummand(p, {c.sigma})
  THEN [i \in 1..Length(sigma) |-> Log(sigma[i])]
  ELSE <<>>

\* lines 97-98
YMinusMuOverSigma(y_dbl, mu_dbl, inv_s) == EMul(ESub(y_dbl, mu_dbl), inv_s)

\* LogpStep with the constant term guarded by include_summand over all types
LogpStep_ConstantByTypes(logp, p, c, z, log_s) ==
  LET l1 == IF IncludeSummand(p, {c.y, c.mu, c.sigma})
            THEN LinAdd(logp, NEG_LOG_SQRT_TWO_PI) ELSE logp
      l2 == IF IncludeSummand(p, {c.sigma}) THEN LinSub(l1, log_s) ELSE l1
  IN  IF IncludeSummand(p, {c.y, c.mu, c.sigma})
      THEN LinAdd(l2, LinOfE(EMul(NEGATIVE_HALF, EMul(z, z))))
      ELSE l2

\* lines 104-110: logp after the terms of one index are added
LogpStep(logp, p, c, z, log_s) ==
  LET l1 == IF IncludeSummand(p, {}) THEN LinAdd(logp, NEG_LOG_SQRT_TWO_PI) ELSE logp
      l2 == IF IncludeSummand(p, {c.sigma}) THEN LinSub(l1, log_s) ELSE l1
  IN  IF IncludeSummand(p, {c.y, c.mu, c.sigma})
      THEN LinAdd(l2, LinOfE(EMul(NEGATIVE_HALF, EMul(z, z))))
      ELSE l2

\* lines 113-120: the amounts added to d_x1[n], d_x2[n], d_x3[n]
LogGradients(z, inv_s) ==
  LET scaled_diff == EMul(inv_s, z)
  IN  <<ENeg(scaled_diff), scaled_diff,
        EAdd(ENeg(inv_s), EMul(inv_s, EMul(z, z)))>>

\* every operand written, constant or not
WrittenOperands_All(f, c) == {j \in 1..Len(Operands(f)) : TRUE}

\* the operands whose accumulator a loop iteration of f writes
WrittenOperands(f, c) ==
  {j \in 1..Len(Operands(f)) : ~c[Operands(f)[j]]}

\* d_x after delta[j] is added to the slot of index i of every operand of W
AddPartials(f, a, d, W, i, delta) ==
  [j \in 1..Len(d) |->
     IF j \in W
     THEN [d[j] EXCEPT ![Slot(a[Operands(f)[j]], i)] = EAdd(@, delta[j])]
     ELSE d[j]]

Setup ==
  /\ pc = "setup"
  /\ d_x' = NewPartials(fn, arg, is_constant)
  /\ IF fn = "normal_log"
     THEN /\ inv_sigma' = InvSigma(arg.sigma)
          /\ log_sigma' = LogSigma(propto, is_constant, arg.sigma)
     ELSE UNCHANGED <<inv_sigma, log_sigma>>
  /\ n' = 0
  /\ pc' = "loop"
  /\ UNCHANGED <<fn, propto, arg, is_constant, acc, written, tail, err, result, rng, hyp>>

\* what follows the last iteration
AfterLoop(f) == IF f = "normal_cdf" THEN "rescale" ELSE "ret"

NormalLogLoop ==
  /\ pc = "loop"
  /\ fn = "normal_log"
  /\ n < MaxSize(fn, arg)
  /\ LET z == YMinusMuOverSigma(View(arg.y, n), View(arg.mu, n), View(inv_sigma, n))
         W == WrittenOperands(fn, is_constant)
     IN  /\ acc' = LogpStep(acc, propto, is_constant, z,
                            IF log_sigma = <<>> THEN LinZero ELSE View(log_sigma, n))
         /\ d_x' = AddPartials(fn, arg, d_x, W, n, LogGradients(z, View(inv_sigma, n)))
         /\ written' = written \cup W
  /\ n' = n + 1
  /\ pc' = IF n + 1 = MaxSize(fn, arg) THEN AfterLoop(fn) ELSE "loop"
  /\ UNCHANGED <<fn, propto, arg, is_constant, inv_sigma, log_sigma, tail, err,
                 result, rng, hyp>>

(***************************************************************************)
(* normal_ss_log, lines 197-245.                                           *)
(***************************************************************************)
\* pow(x, 2) and pow(x, 3)
Pow2(x) == EMul(x, x)
Pow3(x) == EMul(x, EMul(x, x))

\* lines 222-224
ConsExpr(y_bar, s_sq, n_o, mu_dbl) ==
  EAdd(s_sq, EMul(n_o, Pow2(ESub(y_bar, mu_dbl))))

\* lines 215-226: logp after the terms of one index are added
SSLogpStep(logp, p, c, y_bar, s_sq, n_o, mu_dbl, sigma_dbl) ==
  LET l1 == IF IncludeSummand(p, {})
            THEN LinAdd(logp, LinScale(n_o, NEG_LOG_SQRT_TWO_PI)) ELSE logp
      l2 == IF IncludeSummand(p, {c.sigma})
            THEN LinSub(l1, LinScale(n_o, Log(sigma_dbl))) ELSE l1
  IN  LinSub(l2, LinOfE(EDiv(ConsExpr(y_bar, s_sq, n_o, mu_dbl),
                             EMul(Two, Pow2(sigma_dbl)))))

\* lines 230-242: the amounts added to d_x1[i] .. d_x4[i]
SSGradients(y_bar, s_sq, n_o, mu_dbl, sigma_dbl) ==
  LET common_derivative ==
        EDiv(EMul(n_o, ESub(mu_dbl, y_bar)), Pow2(sigma_dbl))
  IN  <<common_derivative,
        ENeg(EDiv(One, EMul(Two, Pow2(sigma_dbl)))),
        ENeg(common_derivative),
        ESub(EDiv(ConsExpr(y_bar, s_sq, n_o, mu_dbl), Pow3(sigma_dbl)),
             EDiv(n_o, sigma_dbl))>>

NormalSSLogLoop ==
  /\ pc = "loop"
  /\ fn = "normal_ss_log"
  /\ n < MaxSize(fn, arg)
  /\ LET y_bar == View(arg.y, n)
         s_sq == View(arg.s_squared, n)
         n_o == View(arg.n_obs, n)
         mu_dbl == View(arg.mu, n)
         sigma_dbl == View(arg.sigma, n)
         W == WrittenOperands(fn, is_constant)
     IN  /\ acc' = SSLogpStep(acc, propto, is_constant, y_bar, s_sq, n_o,
                              mu_dbl, sigma_dbl)
         /\ d_x' = AddPartials(fn, arg, d_x, W, n,
                               SSGradients(y_bar, s_sq, n_o, mu_dbl, sigma_dbl))
         /\ written' = written \cup W
  /\ n' = n + 1
  /\ pc' = IF n + 1 = MaxSize(fn, arg) THEN AfterLoop(fn) ELSE "loop"
  /\ UNCHANGED <<fn, propto, arg, is_constant, inv_sigma, log_sigma, tail, err,
                 result, rng, hyp>>

(***************************************************************************)
(* normal_cdf, normal_cdf_log, normal_ccdf_log, lines 301-494.             *)
(*                                                                         *)
(* scaled_diff is kept in units of INV_SQRT_2: the value held is           *)
(* (y - mu) / sigma, and the thresholds -37.5 * INV_SQRT_2,                *)
(* -5.0 * INV_SQRT_2 and 8.25 * INV_SQRT_2 are held as -37.5, -5 and 8.25. *)
(* A tail quantity is c0 + c1 * f(x) with f one of erf, erfc ("none" for a *)
(* literal c0); x is in the same units.                                    *)
(***************************************************************************)
ScaledDiff(y_dbl, mu_dbl, sigma_dbl) == EDiv(ESub(y_dbl, mu_dbl), sigma_dbl)

DeepLeftBound == Fin(-75, 2)
LeftBound == Int2E(-5)
RightBound == Fin(33, 4)

Literal(v) == [c0 |-> v, c1 |-> Zero, f |-> "none", x |-> Zero]
TailTerm(c0, c1, f, x) == [c0 |-> c0, c1 |-> c1, f |-> f, x |-> x]

\* lines 315-323
Cdf_(sd) ==
  IF ELt(sd, DeepLeftBound) THEN Literal(Zero)
  ELSE IF ELt(sd, LeftBound) THEN TailTerm(Zero, Half, "erfc", ENeg(sd))
  ELSE IF EGt(sd, RightBound) THEN Literal(One)
  ELSE TailTerm(Half, Half, "erf", sd)

\* one_p_erf saturating to 2.0 in the deep left tail
OnePErf_LeftTwo(sd) ==
  IF ELt(sd, DeepLeftBound) THEN Literal(Two)
  ELSE IF ELt(sd, LeftBound) THEN TailTerm(Zero, One, "erfc", ENeg(sd))
  ELSE IF EGt(sd, RightBound) THEN Literal(Two)
  ELSE TailTerm(One, One, "erf", sd)

\* lines 397-405
OnePErf(sd) ==
  IF ELt(sd, DeepLeftBound) THEN Literal(Zero)
  ELSE IF ELt(sd, LeftBound) THEN TailTerm(Zero, One, "erfc", ENeg(sd))
  ELSE IF EGt(sd, RightBound) THEN Literal(Two)
  ELSE TailTerm(One, One, "erf", sd)

\* one_m_erf saturating on the right from 8.25 * INV_SQRT_2 on
OneMErf_RightInclusive(sd) ==
  IF ELt(sd, DeepLeftBound) THEN Literal(Two)
  ELSE IF ELt(sd, LeftBound) THEN TailTerm(Two, ENeg(One), "erfc", ENeg(sd))
  ELSE IF ~ELt(sd, RightBound) THEN Literal(Zero)
  ELSE TailTerm(One, ENeg(One), "erf", sd)

\* lines 469-477
OneMErf(sd) ==
  IF ELt(sd, DeepLeftBound) THEN Literal(Two)
  ELSE IF ELt(sd, LeftBound) THEN TailTerm(Two, ENeg(One), "erfc", ENeg(sd))
  ELSE IF EGt(sd, RightBound) THEN Literal(Zero)
  ELSE TailTerm(One, ENeg(One), "erf", sd)

TailQuantity(f, sd) ==
  CASE f = "normal_cdf" -> Cdf_(sd)
    [] f = "normal_cdf_log" -> OnePErf(sd)
    [] f = "normal_ccdf_log" -> OneMErf(sd)

\* lines 326, 408, 480: cdf *= cdf_; cdf_log += log_half + log(one_p_erf);
\* ccdf_log += log_half + log(one_m_erf).  The accumulator is its initial
\* value and the tail quantities folded into it so far.
Accumulate(a, q) == [a EXCEPT !.terms = Append(@, q)]

\* A derivative term: coef * SQRT_TWO_OVER_PI * (0.5 if half)
\*   * exp(-sd * sd) / div / sigma * (sd * SQRT_2 if bysd), multiplied by
\* every value of scale.
Term(coef, half, sd, div, sigma_dbl, bysd) ==
  [coef |-> coef, half |-> half, sd |-> sd, div |-> div, sigma |-> sigma_dbl,
   bysd |-> bysd, scale |-> <<>>]

\* lines 329-336, 411-419, 483-491: the terms added to d_x1[n], d_x2[n], d_x3[n]
TailGradients(f, sd, q, sigma_dbl) ==
  LET s == IF f = "normal_ccdf_log" THEN -1 ELSE 1
      h == f = "normal_cdf"
  IN  <<Term(s, h, sd, q, sigma_dbl, FALSE),
        Term(-s, h, sd, q, sigma_dbl, FALSE),
        Term(-s, h, sd, q, sigma_dbl, TRUE)>>

\* d_x after term[j] is added to the slot of index i of every operand of W
AddTerms(f, a, d, W, i, term) ==
  [j \in 1..Len(d) |->
     IF j \in W
     THEN [d[j] EXCEPT ![Slot(a[Operands(f)[j]], i)] = Append(@, term[j])]
     ELSE d[j]]

TailLoop ==
  /\ pc = "loop"
  /\ fn \in TailFns
  /\ n < MaxSize(fn, arg)
  /\ LET sigma_dbl == View(arg.sigma, n)
         sd == ScaledDiff(View(arg.y, n), View(arg.mu, n), sigma_dbl)
         q == TailQuantity(fn, sd)
         W == WrittenOperands(fn, is_constant)
     IN  /\ tail' = [set |-> TRUE, scaled_diff |-> sd, q |-> q]
         /\ acc' = Accumulate(acc, q)
         /\ d_x' = AddTerms(fn, arg, d_x, W, n, TailGradients(fn, sd, q, sigma_dbl))
         /\ written' = written \cup W
  /\ n' = n + 1
  /\ pc' = IF n + 1 = MaxSize(fn, arg) THEN AfterLoop(fn) ELSE "loop"
  /\ UNCHANGED <<fn, propto, arg, is_constant, inv_sigma, log_sigma, err,
                 result, rng, hyp>>

\* d_x[n] *= cdf
ScaleSlot(slot, cdf) ==
  [t \in 1..Len(slot) |-> [slot[t] EXCEPT !.scale = Append(@, cdf)]]

RECURSIVE ScaleTimes(_, _, _)
ScaleTimes(slot, cdf, k) ==
  IF k = 0 THEN slot ELSE ScaleTimes(ScaleSlot(slot, cdf), cdf, k - 1)

\* the rescaling loop run over the N broadcast indices instead of the
\* operand's own length
RescaleOperand_EveryIndex(slots, len, cdf) ==
  [i \in 1..Len(slots) |->
     IF len = 1 THEN ScaleTimes(slots[i], cdf, Len(cdf.terms))
     ELSE ScaleSlot(slots[i], cdf)]

\* lines 339-347: the slots of an operand after its rescaling loop, which
\* runs over stan::length of the operand
RescaleOperand(slots, len, cdf) ==
  [i \in 1..Len(slots) |-> IF i <= len THEN ScaleSlot(slots[i], cdf) ELSE slots[i]]

CdfRescale ==
  /\ pc = "rescale"
  /\ d_x' = [j \in 1..Len(d_x) |->
               IF is_constant[Operands(fn)[j]] THEN d_x[j]
               ELSE RescaleOperand(d_x[j], Length(arg[Operands(fn)[j]]), acc)]
  /\ written' = written \cup WrittenOperands(fn, is_constant)
  /\ pc' = "ret"
  /\ UNCHANGED <<fn, propto, arg, is_constant, n, acc, inv_sigma, log_sigma,
                 tail, err, result, rng, hyp>>

\* operands_and_partials.to_var
ToVar ==
  /\ pc = "ret"
  /\ result' = [kind |-> "value", value |-> acc, partials |-> d_x]
  /\ pc' = "done"
  /\ UNCHANGED <<fn, propto, arg, is_constant, n, acc, inv_sigma, log_sigma,
                 d_x, written, tail, err, rng, hyp>>


(***************************************************************************)
(* normal_rng, lines 496-517.                                              *)
(***************************************************************************)
CallRng ==
  /\ pc = "idle"
  /\ \E m \in RngMu, s \in RngSigma, p \in 0..MaxDraws :
       /\ fn' = "normal_rng"
       /\ arg' = [NoArg EXCEPT !.mu = <<m>>, !.sigma = <<s>>]
       /\ rng' = [pos |-> p, reads |-> 0]
  /\ pc' = "rng_check"
  /\ UNCHANGED <<propto, is_constant, n, acc, inv_sigma, log_sigma, d_x,
                 written, tail, err, result, hyp>>

\* the checks of normal_rng made after a deviate has been drawn
RngValidate_DrawFirst ==
  /\ pc = "rng_check"
  /\ rng' = [pos |-> rng.pos + 1, reads |-> rng.reads + 1]
  /\ IF Validate(fn, arg) # NoErr
     THEN /\ err' = Validate(fn, arg)
          /\ pc' = "error"
     ELSE /\ pc' = "rng_draw"
          /\ UNCHANGED err
  /\ UNCHANGED <<fn, propto, arg, is_constant, n, acc, inv_sigma, log_sigma,
                 d_x, written, tail, result, hyp>>

\* lines 509-512
RngValidate ==
  /\ pc = "rng_check"
  /\ IF Validate(fn, arg) # NoErr
     THEN /\ err' = Validate(fn, arg)
          /\ pc' = "error"
     ELSE /\ pc' = "rng_draw"
          /\ UNCHANGED err
  /\ UNCHANGED <<fn, propto, arg, is_constant, n, acc, inv_sigma, log_sigma,
                 d_x, written, tail, result, rng, hyp>>

\* the deviate the random source yields at position p
Deviate(p) == Deviates[(p % Len(Deviates)) + 1]

\* normal_distribution<>(mu, sigma) applied to a standard normal deviate
Variate(m, s, z) == EAdd(m, EMul(s, z))

\* lines 514-516
RngDraw ==
  /\ pc = "rng_draw"
  /\ result' = [kind |-> "value",
                value |-> Variate(arg.mu[1], arg.sigma[1], Deviate(rng.pos)),
                partials |-> <<>>]
  /\ rng' = [pos |-> rng.pos + 1, reads |-> rng.reads + 1]
  /\ pc' = "done"
  /\ UNCHANGED <<fn, propto, arg, is_constant, n, acc, inv_sigma, log_sigma,
                 d_x, written, tail, err, hyp>>

(***************************************************************************)
(* check_3F2_converges, check_3F2_converges.hpp lines 40-77.               *)
(***************************************************************************)
AVals == {NaN, NInf, Int2E(-2), Int2E(-1), Half, Int2E(1)}
BVals == {NaN, NInf, Int2E(-2), Int2E(-1), Int2E(1), Int2E(3)}
ZVals == {NaN, Half, Int2E(1), Int2E(-1), Int2E(2)}

\* the range of int num_terms
INT_MAX == 2147483647
INT_MIN == -INT_MAX - 1

\* what the conversion of a double outside the range of int to int may
\* yield (the behaviour is undefined): the "integer indefinite" value of
\* cvttsd2si or the saturated value
ConversionOutcomes == {Int2E(INT_MIN), Int2E(INT_MAX)}

\* num_terms = floor(...): the conversion to int; every finite value of the
\* model is within the range of int, an infinite one yields ub
ToInt(x, ub) == IF IsFin(x) THEN x ELSE ub

\* x < 0.0 && floor(x) == x
NegativeInteger(x) == ELt(x, Zero) /\ EEq(EFloor(x), x)

\* lines 49-51
IsPolynomial(h) ==
  NegativeInteger(h.a1) \/ NegativeInteger(h.a2) \/ NegativeInteger(h.a3)

\* lines 53-58: num_terms after one of the three updates
NumTermsStep(a, num_terms, ub) ==
  IF NegativeInteger(a) /\ EGt(EAbs(a), num_terms)
  THEN ToInt(EFloor(EAbs(a)), ub)
  ELSE num_terms

\* lines 47-59
NumTerms(h, ub) ==
  IF IsPolynomial(h)
  THEN NumTermsStep(h.a3, NumTermsStep(h.a2, NumTermsStep(h.a1, Zero, ub), ub), ub)
  ELSE Zero

\* lines 62-63
IsUndefined(h, ub) ==
  \/ NegativeInteger(h.b1) /\ ELe(EAbs(h.b1), NumTerms(h, ub))
  \/ NegativeInteger(h.b2) /\ ELe(EAbs(h.b2), NumTerms(h, ub))

\* lines 65-69: the function returns without throwing
Returns3F2(h, ub) ==
  \/ IsPolynomial(h) /\ ~IsUndefined(h, ub)
  \/ ELt(EAbs(h.z), One) /\ ~IsUndefined(h, ub)
  \/ /\ EEq(EAbs(h.z), One) /\ ~IsUndefined(h, ub)
     /\ EGt(EAdd(h.b1, h.b2), EAdd(EAdd(h.a1, h.a2), h.a3))

Check3F2Converges ==
  /\ pc = "idle"
  /\ \E a1 \in AVals, a2 \in AVals, a3 \in AVals, b1 \in BVals, b2 \in BVals,
        z \in ZVals, ub \in ConversionOutcomes :
       LET h == [a1 |-> a1, a2 |-> a2, a3 |-> a3, b1 |-> b1, b2 |-> b2, z |-> z]
       IN  /\ hyp' = h
           /\ IF Returns3F2(h, ub)
              THEN /\ pc' = "done"
                   /\ UNCHANGED err
              ELSE /\ pc' = "error"
                   /\ err' = [type |-> "DomainError", function |-> "caller",
                              name |-> "3F2", value |-> z]
  /\ fn' = "check_3F2_converges"
  /\ UNCHANGED <<propto, arg, is_constant, n, acc, inv_sigma, log_sigma, d_x,
                 written, tail, result, rng>>

Next ==
  \/ CallNormalLog
  \/ CallTail
  \/ ZeroLengthTest
  \/ ValidateArgs
  \/ SummandTest
  \/ Setup
  \/ CallSS
  \/ NormalLogLoop
  \/ NormalSSLogLoop
  \/ TailLoop
  \/ CdfRescale
  \/ ToVar
  \/ CallRng
  \/ RngValidate
  \/ RngDraw
  \/ Check3F2Converges

Spec == Init /\ [][Next]_vars

\* the tail evaluators alone
NextTail ==
  \/ CallTail
  \/ ZeroLengthTest
  \/ ValidateArgs
  \/ Setup
  \/ TailLoop
  \/ CdfRescale
  \/ ToVar

SpecTail == Init /\ [][NextTail]_vars

\* normal_rng alone
NextRng ==
  \/ CallRng
  \/ RngValidate
  \/ RngDraw

SpecRng == Init /\ [][NextRng]_vars

\* check_3F2_converges alone
Next3F2 == Check3F2Converges

Spec3F2 == Init /\ [][Next3F2]_vars

(***************************************************************************)
(* Properties.                                                             *)
(***************************************************************************)
Elems(xs) == {xs[i] : i \in 1..Len(xs)}
NotPositive(x) == x.k \in {"nan", "ninf"} \/ (x.k = "fin" /\ x.n <= 0)
NonEmptyCall == Len(arg.y) > 0 /\ Len(arg.mu) > 0 /\ Len(arg.sigma) > 0
Lengths3 == {Len(arg.y), Len(arg.mu), Len(arg.sigma)}
InvalidValue3 ==
  \/ \E x \in Elems(arg.y) : x.k = "nan"
  \/ \E x \in Elems(arg.mu) : x.k # "fin"
  \/ \E x \in Elems(arg.sigma) : NotPositive(x)
BadShape3 ==
  \E l \in Lengths3 : l # 1 /\ \E m \in Lengths3 : m > l
Validated == pc \notin {"idle", "entry", "check"}

\* C1: a non-empty call of normal_log, normal_cdf, normal_cdf_log or
\* normal_ccdf_log with a NaN in y, a non-finite mu or a sigma that is not
\* strictly positive ends in a DomainError with no result; with valid values
\* and a length that is neither 1 nor the maximum it ends in a ShapeMismatch
\* with no result.
C1_ErrorsAbort ==
  (fn \in ThreeArgFns /\ NonEmptyCall /\ Validated) =>
    /\ InvalidValue3 =>
         pc = "error" /\ err.type = "DomainError" /\ result = NoResult
    /\ (~InvalidValue3 /\ BadShape3) =>
         pc = "error" /\ err.type = "ShapeMismatch" /\ result = NoResult

C1_Witness ==
  /\ fn = "normal_cdf" /\ pc = "error" /\ err.type = "ShapeMismatch"
  /\ Len(arg.y) = 3 /\ Len(arg.mu) = 2 /\ Len(arg.sigma) = 1

AllLengths ==
  IF fn = "normal_ss_log"
  THEN Lengths3 \cup {Len(arg.s_squared), Len(arg.n_obs)}
  ELSE Lengths3
IdentityValue ==
  CASE fn = "normal_cdf" -> result.value.init = One /\ result.value.terms = <<>>
    [] fn \in {"normal_cdf_log", "normal_ccdf_log"} ->
         result.value.init = Zero /\ result.value.terms = <<>>
    [] OTHER -> result.value = LinZero

\* C2: a call of an evaluator with an argument of length 0 returns the
\* identity of its operation (1 for normal_cdf, 0 for the others) and throws
\* nothing, whatever the other arguments hold.
C2_ZeroLengthIdentity ==
  (fn \in Evaluators /\ 0 \in AllLengths /\ pc \notin {"idle", "entry"}) =>
    /\ pc = "done"
    /\ err = NoErr
    /\ result.kind = "value"
    /\ IdentityValue

C2_Witness ==
  /\ fn = "normal_cdf" /\ pc = "done"
  /\ Len(arg.y) = 3 /\ Len(arg.mu) = 2 /\ Len(arg.sigma) = 0
  /\ \E x \in Elems(arg.mu) : x.k = "pinf"

\* the element an argument supplies at the 0-based broadcast index i
Bc(x, i) == IF Len(x) = 1 THEN x[1] ELSE x[i + 1]
BroadcastLength == CHOOSE m \in AllLengths : \A l \in AllLengths : l <= m
ZAt(i) == EDiv(ESub(Bc(arg.y, i), Bc(arg.mu, i)), Bc(arg.sigma, i))
Quadratic(i) == LinOfE(ENeg(EMul(Half, EMul(ZAt(i), ZAt(i)))))

\* -0.5 log(2 pi) - log(sigma) - 0.5 z^2 at the broadcast index i
LogDensity(i) ==
  LinAdd(LinSub(NEG_LOG_SQRT_TWO_PI, Log(Bc(arg.sigma, i))), Quadratic(i))

RECURSIVE SumDensity(_)
SumDensity(k) ==
  IF k = 0 THEN LinZero ELSE LinAdd(SumDensity(k - 1), LogDensity(k - 1))

\* C3: for valid non-empty inputs normal_log(y, mu, sigma) returns the sum
\* over the N broadcast indices of the log density of (y[n], mu[n],
\* sigma[n]), an argument of length 1 supplying its element at every index.
C3_BroadcastSum ==
  (fn = "normal_log" /\ ~propto /\ pc = "done" /\ NonEmptyCall) =>
    result.value = SumDensity(BroadcastLength)

C3_Witness ==
  /\ fn = "normal_log" /\ ~propto /\ pc = "done"
  /\ Len(arg.y) = 3 /\ Len(arg.mu) = 1 /\ Len(arg.sigma) = 3
  /\ result.value.k = "fin"
  /\ arg.y[1] # arg.y[2] /\ arg.sigma[1] # arg.sigma[2]

AllInputsConstant == is_constant.y /\ is_constant.mu /\ is_constant.sigma

\* the terms index i contributes under the rules of propto
ProptoTerm(i) ==
  LinAdd(LinAdd(IF propto THEN LinZero ELSE NEG_LOG_SQRT_TWO_PI,
                IF propto /\ is_constant.sigma THEN LinZero
                ELSE LinNeg(Log(Bc(arg.sigma, i)))),
         IF propto /\ AllInputsConstant THEN LinZero ELSE Quadratic(i))

RECURSIVE SumPropto(_)
SumPropto(k) ==
  IF k = 0 THEN LinZero ELSE LinAdd(SumPropto(k - 1), ProptoTerm(k - 1))

\* sum over the indices below k of NEG_LOG_SQRT_TWO_PI - log(sigma[n])
RECURSIVE SumOffset(_)
SumOffset(k) ==
  IF k = 0 THEN LinZero
  ELSE LinAdd(SumOffset(k - 1),
              LinSub(NEG_LOG_SQRT_TWO_PI, Log(Bc(arg.sigma, k - 1))))

ConstantOperands ==
  {j \in 1..Len(Operands(fn)) : is_constant[Operands(fn)[j]]}

\* what normal_log adds for index i to the accumulator of operand j
Contribution(j, i) ==
  LET z == ZAt(i)
      sigma_i == Bc(arg.sigma, i)
  IN  CASE j = 1 -> ENeg(EDiv(z, sigma_i))
        [] j = 2 -> EDiv(z, sigma_i)
        [] j = 3 -> EAdd(ENeg(EDiv(One, sigma_i)), EDiv(EMul(z, z), sigma_i))

\* the sum of the contributions of the indices below k that fall into slot
\* s of operand j
RECURSIVE SlotSum(_, _, _)
SlotSum(j, s, k) ==
  IF k = 0 THEN Zero
  ELSE IF Len(arg[Operands(fn)[j]]) = 1 \/ s = k
       THEN EAdd(SlotSum(j, s, k - 1), Contribution(j, k - 1))
       ELSE SlotSum(j, s, k - 1)

\* C5: at no point of a call of an evaluator is the derivative accumulator
\* of a constant input written; in normal_log, after n iterations, slot s of
\* the accumulator of a non-constant input holds exactly the contributions
\* -z/sigma (y), +z/sigma (mu), -1/sigma + z^2/sigma (sigma) of the indices
\* below n that select it: all of them for an input of length 1.
C5_DerivativeWrites ==
  /\ fn \in Evaluators =>
       \A j \in ConstantOperands :
         j \notin written /\ (d_x # <<>> => d_x[j] = <<>>)
  /\ (fn = "normal_log" /\ d_x # <<>>) =>
       \A j \in 1..3 :
         ~is_constant[Operands(fn)[j]] =>
           /\ j \in written <=> n > 0
           /\ Len(d_x[j]) = Len(arg[Operands(fn)[j]])
           /\ \A s \in 1..Len(d_x[j]) : d_x[j][s] = SlotSum(j, s, n)

C5_Witness ==
  /\ fn = "normal_log" /\ pc = "done"
  /\ is_constant.y /\ ~is_constant.mu /\ ~is_constant.sigma
  /\ Len(arg.y) = 3 /\ Len(arg.mu) = 1 /\ Len(arg.sigma) = 3 /\ d_x # <<>>
  /\ d_x[2][1].k = "fin" /\ d_x[2][1] # Zero
  /\ written = {2, 3}

DeepLeft == tail.set /\ ELt(tail.scaled_diff, Fin(-75, 2))

\* C6 as stated: in the deep left tail (scaled_diff < -37.5 / sqrt(2)) the
\* tail quantity is 0 for cdf_ in normal_cdf, 2.0 for one_p_erf in
\* normal_cdf_log and 2.0 for one_m_erf in normal_ccdf_log.
C6_AsStated ==
  (fn \in TailFns /\ DeepLeft) =>
    tail.q = Literal(IF fn = "normal_cdf" THEN Zero ELSE Two)

\* C6 (amended): in the deep left tail the tail quantity is 0 for cdf_ in
\* normal_cdf, 0.0 for one_p_erf in normal_cdf_log and 2.0 for one_m_erf in
\* normal_ccdf_log.
C6_DeepLeftSaturation ==
  (fn \in TailFns /\ DeepLeft) =>
    tail.q = Literal(IF fn = "normal_ccdf_log" THEN Two ELSE Zero)

C6_Witness ==
  /\ fn = "normal_cdf_log" /\ pc = "done" /\ DeepLeft
  /\ tail.q = Literal(Zero)

\* the ratio term index m contributes to the accumulator of operand j of
\* normal_cdf, scaled by the values of sc
RatioTerm(j, m, sc) ==
  [coef |-> IF j = 1 THEN 1 ELSE -1, half |-> TRUE, sd |-> ZAt(m),
   div |-> acc.terms[m + 1], sigma |-> Bc(arg.sigma, m), bysd |-> j = 3,
   scale |-> sc]

\* the indices below k that select slot s of an argument of length len
Selecting(len, s, k) == {m \in 0..(k - 1) : len = 1 \/ m + 1 = s}

\* slot holds exactly the ratio terms of the indices below k that select
\* it, in the order of the indices, each scaled by the values of sc
HoldsRatios(slot, j, len, s, k, sc) ==
  /\ Len(slot) = Cardinality(Selecting(len, s, k))
  /\ \A t \in 1..Len(slot) :
       slot[t] = RatioTerm(j, IF len = 1 THEN t - 1 ELSE s - 1, sc)

\* C7: in normal_cdf no derivative slot is rescaled before the main loop has
\* completed; once the rescaling has run, every slot of every non-constant
\* input holds the ratio terms accumulated into it, each multiplied by the
\* final joint cdf exactly once.
C7_RescaleOnce ==
  (fn = "normal_cdf" /\ d_x # <<>>) =>
    \A j \in 1..3 :
      ~is_constant[Operands(fn)[j]] =>
        LET len == Len(arg[Operands(fn)[j]])
        IN  /\ Len(d_x[j]) = len
            /\ \A s \in 1..len :
                 /\ pc \in {"loop", "rescale"} =>
                      HoldsRatios(d_x[j][s], j, len, s, n, <<>>)
                 /\ pc \in {"ret", "done"} =>
                      /\ Len(acc.terms) = BroadcastLength
                      /\ HoldsRatios(d_x[j][s], j, len, s, BroadcastLength,
                                     <<acc>>)
                 /\ pc = "done" => result.partials[j][s] = d_x[j][s]

C7_Witness ==
  /\ fn = "normal_cdf" /\ pc = "done"
  /\ ~is_constant.mu /\ ~is_constant.y
  /\ Len(arg.y) = 3 /\ Len(arg.mu) = 1 /\ d_x # <<>>
  /\ Len(d_x[2][1]) = 3 /\ Len(d_x[1][3]) = 1
  /\ d_x[2][1][3].scale = <<acc>>

InvalidRngParameters ==
  arg.mu[1].k # "fin" \/ NotPositive(arg.sigma[1])

\* C8: normal_rng checks its parameters before it touches the random
\* source: a call with an invalid parameter ends in a DomainError with the
\* source neither read nor advanced and nothing returned; the source
\* changes only in the draw that follows the passed checks and returns.
C8_ChecksBeforeDraw ==
  /\ [](fn = "normal_rng" =>
          /\ InvalidRngParameters =>
               pc \in {"rng_check", "error"} /\ rng.reads = 0 /\ result = NoResult
          /\ pc = "error" => err.type = "DomainError" /\ InvalidRngParameters
          /\ pc = "rng_draw" => rng.reads = 0
          /\ pc = "done" => rng.reads = 1 /\ result.kind = "value")
  /\ [][(fn = "normal_rng" /\ rng' # rng) =>
          /\ pc = "rng_draw" /\ ~InvalidRngParameters
          /\ pc' = "done"
          /\ rng'.pos = rng.pos + 1]_vars

C8_Witness ==
  /\ fn = "normal_rng" /\ pc = "error"
  /\ arg.mu = <<Int2E(1)>> /\ arg.sigma = <<NaN>>
  /\ rng.pos = 1 /\ rng.reads = 0

\* the name of the function called, as its error messages should give it
OwnName ==
  CASE fn = "normal_log"      -> "stan::prob::normal_log(%1%)"
    [] fn = "normal_ss_log"   -> "stan::prob::normal_ss_log(%1%)"
    [] fn = "normal_cdf"      -> "stan::prob::normal_cdf(%1%)"
    [] fn = "normal_cdf_log"  -> "stan::prob::normal_cdf_log(%1%)"
    [] fn = "normal_ccdf_log" -> "stan::prob::normal_ccdf_log(%1%)"
    [] fn = "normal_rng"      -> "stan::prob::normal_rng(%1%)"
    [] OTHER -> ""

RoleLabels ==
  {"Random variable", "Location parameter", "Scale parameter",
   "Location parameter sufficient statistic",
   "Scale parameter sufficient statistic", "Number of observations"}

\* C9: every DomainError of a failed check inside an evaluator or normal_rng
\* carries the name of the function that was called and the role label of
\* the offending argument.
C9_ErrorNamesFunction ==
  (fn \in Evaluators \cup {"normal_rng"} /\ pc = "error"
     /\ err.type = "DomainError") =>
    err.function = OwnName /\ err.name \in RoleLabels

HasNaN == \E f \in DOMAIN hyp : hyp[f].k = "nan"

\* C10: check_3F2_converges throws domain_error whenever one of a1, a2, a3,
\* b1, b2, z is NaN.
C10_NaNThrows ==
  (fn = "check_3F2_converges" /\ HasNaN) =>
    pc = "error" /\ err.type = "DomainError"

LogFns == {"normal_log", "normal_ss_log"}
AllOperandsConstant == ConstantOperands = 1..Len(Operands(fn))
InvalidValueSS ==
  \/ \E x \in Elems(arg.y) \cup Elems(arg.s_squared) : x.k = "nan"
  \/ \E x \in Elems(arg.n_obs) : x.k # "fin" \/ NotPositive(x)
  \/ \E x \in Elems(arg.mu) : x.k # "fin"
  \/ \E x \in Elems(arg.sigma) : NotPositive(x)
InvalidValueLog == IF fn = "normal_ss_log" THEN InvalidValueSS ELSE InvalidValue3
BadShapeLog == \E l \in AllLengths : l # 1 /\ \E m \in AllLengths : m > l

\* C11: in normal_log and normal_ss_log a non-empty call with propto set and
\* every operand constant that has an invalid value or incompatible lengths
\* ends in the error of the failed check and returns nothing; it returns
\* (the value 0, with no partials) only after every check has passed, and it
\* never enters the loop.
C11_ChecksBeforeShortCircuit ==
  (fn \in LogFns /\ propto /\ AllOperandsConstant /\ 0 \notin AllLengths
     /\ Validated) =>
    /\ (InvalidValueLog \/ BadShapeLog) =>
         pc = "error" /\ err # NoErr /\ result = NoResult
    /\ ~(InvalidValueLog \/ BadShapeLog) =>
         /\ pc \in {"summand", "done"}
         /\ err = NoErr
         /\ pc = "summand" => result = NoResult
         /\ pc = "done" =>
              result = [kind |-> "value", value |-> LinZero, partials |-> <<>>]

C11_Witness ==
  /\ fn = "normal_ss_log" /\ propto /\ AllOperandsConstant
  /\ pc = "error" /\ err.type = "ShapeMismatch"
  /\ Len(arg.y) = 3 /\ Len(arg.mu) = 2

\* x < num / den, x > num / den and their negations for a finite or
\* infinite x; each is false of NaN
Under(x, num, den) == x.k = "ninf" \/ (x.k = "fin" /\ x.n * den < num * x.d)
Over(x, num, den) == x.k = "pinf" \/ (x.k = "fin" /\ x.n * den > num * x.d)
AtLeast(x, num, den) == x.k = "pinf" \/ (x.k = "fin" /\ x.n * den >= num * x.d)
AtMost(x, num, den) == x.k = "ninf" \/ (x.k = "fin" /\ x.n * den <= num * x.d)

\* the region a tail quantity of the function f shows
RegionOf(f, q) ==
  CASE q.f = "erfc" -> "erfc"
    [] q.f = "erf" -> "erf"
    [] q = Literal(IF f = "normal_ccdf_log" THEN Two ELSE Zero) -> "deep_left"
    [] q = Literal(CASE f = "normal_cdf" -> One
                     [] f = "normal_cdf_log" -> Two
                     [] OTHER -> Zero) -> "right"
    [] OTHER -> "none"

\* the three functions select the same region for the element last classified
SameRegion ==
  \A f \in TailFns :
    RegionOf(f, TailQuantity(f, tail.scaled_diff)) = RegionOf(fn, tail.q)

\* the interval tests, scaled_diff being held in units of INV_SQRT_2
Saturations ==
  LET sd == tail.scaled_diff
      r == RegionOf(fn, tail.q)
  IN  /\ r = "deep_left" <=> Under(sd, -75, 2)
      /\ r = "erfc" <=> (AtLeast(sd, -75, 2) /\ Under(sd, -5, 1))
      /\ r = "right" <=> Over(sd, 33, 4)

NegInt(x) == x.k = "fin" /\ x.d = 1 /\ x.n < 0
NegIntAs == {x \in {hyp.a1, hyp.a2, hyp.a3} : NegInt(x)}
Polynomial3F2 == NegIntAs # {}
\* the largest |a_i| among the negative-integer a_i, 0 if there is none
LargestNegIntA ==
  IF NegIntAs = {} THEN 0
  ELSE CHOOSE m \in {-x.n : x \in NegIntAs} : \A x \in NegIntAs : -x.n <= m
Undefined3F2 == \E b \in {hyp.b1, hyp.b2} : NegInt(b) /\ -b.n <= LargestNegIntA
AbsZBelowOne == hyp.z.k = "fin" /\ Abs(hyp.z.n) < hyp.z.d
AbsZIsOne == hyp.z.k = "fin" /\ Abs(hyp.z.n) = hyp.z.d
SumBExceedsSumA ==
  EGt(EAdd(hyp.b1, hyp.b2), EAdd(EAdd(hyp.a1, hyp.a2), hyp.a3))
Converges3F2 ==
  /\ ~Undefined3F2
  /\ Polynomial3F2 \/ AbsZBelowOne \/ (AbsZIsOne /\ SumBExceedsSumA)

\* C13: for non-NaN arguments check_3F2_converges returns without throwing
\* iff the series is not undefined and is a polynomial, or has |z| < 1, or
\* has |z| = 1 and b1 + b2 > a1 + a2 + a3 (polynomial: some a_i is a
\* negative integer; undefined: b1 or b2 is a negative integer no larger in
\* magnitude than the largest negative-integer a_i), and throws otherwise;
\* so with no negative-integer a_i and |z| < 1 it returns.
C13_ReturnsIffConverges ==
  (fn = "check_3F2_converges" /\ ~HasNaN) =>
    /\ pc = "done" <=> Converges3F2
    /\ pc = "error" <=> ~Converges3F2
    /\ pc = "error" => err.type = "DomainError"
    /\ (~Polynomial3F2 /\ AbsZBelowOne) => pc = "done"

\* the tail quantity of the element last classified, by which rep_deriv
\* divides; a literal is zero iff it is 0.0 (erfc(x), 1 + erf(x) and
\* 1 - erf(x) are taken to be non-zero where the code evaluates them)
DivisorIsZero == tail.q.f = "none" /\ tail.q.c0 = Zero

\* C14: for valid non-empty inputs the quantity rep_deriv divides by (cdf_
\* in normal_cdf, one_p_erf in normal_cdf_log, one_m_erf in
\* normal_ccdf_log) is non-zero in every region, the saturated ones
\* included.
C14_DivisorNonZero ==
  (fn \in TailFns /\ tail.set) => ~DivisorIsZero
=============================================================================
